---- MODULE Spec2Model ----
(***************************************************************************)
(* A model of github_webhook_server: the request handlers (Route), the      *)
(* mpsc channel of Event, the single worker thread running                  *)
(* update_and_run_hook, and main's listen / Done / join sequence.           *)
(***************************************************************************)
EXTENDS Naturals, Sequences, FiniteSets, TLC

VARIABLES
    mainPc,     \* main's position: "listen", "serving", "stopped", "join", "exit_ok", "exit_err"
    routes,     \* BTreeMap<String, Route>: route -> its hooks, in configuration order
    queue,      \* messages buffered in the mpsc channel (Event values)
    recvAlive,  \* the Receiver exists (it is dropped when the worker closure ends)
    handlers,   \* per request handler: [pc, req, resp, appended]
    arrived,    \* number of requests tide has dispatched so far
    enqueued,   \* number of PushEvents whose send succeeded; the n-th has id n
    wPc,        \* worker thread: "recv", "pipeline", "returned", "exited"
    wJob,       \* the PushEvent the worker is processing
    wStage,     \* stage of update_and_run_hook about to run (1..4)
    wTrace,     \* commands run so far for wJob, each with its outcome
    log,        \* SimpleLog of the pipeline: its add_entry calls
    stderr,     \* what the worker wrote to stderr since it last dequeued a job
    runs,       \* pipelines started, in order: [id, hook, result]
    running,    \* ids of the jobs whose pipeline is executing
    fnIn,       \* arguments of the function applied on its own (SigSpec, RouteSpec)
    fnOut       \* its result

vars == << mainPc, routes, queue, recvAlive, handlers, arrived, enqueued,
           wPc, wJob, wStage, wTrace, log, stderr, runs, running, fnIn, fnOut >>

mainVars == << mainPc, routes >>
handlerVars == << handlers, arrived >>
workerVars == << wPc, wJob, wStage, wTrace, log, stderr, runs, running >>
fnVars == << fnIn, fnOut >>

\* Option<T>: None is the empty sequence, Some(x) the one-element sequence
None == << >>
Some(x) == << x >>
Unwrap(o) == o[1]

----------------------------------------------------------------------------
(* Bounds *)

\* requests the listener dispatches in one behaviour
MaxRequests == 2
\* concurrently running request handlers
MaxHandlers == 2
\* length of the hex text of a signature header drawn in SigInit
MaxHexLen == 3
\* hooks of one Route drawn in RouteInit
MaxHooks == 3

Handlers == 1..MaxHandlers

----------------------------------------------------------------------------
(* Strings as sequences of characters, hex, and the abstract HMAC *)

Sha256Prefix == << "s", "h", "a", "2", "5", "6", "=" >>
Sha1Prefix == << "s", "h", "a", "1", "=" >>

\* str::strip_prefix: the remainder after the prefix, or None
strip_prefix(s, p) ==
    IF Len(s) >= Len(p) /\ SubSeq(s, 1, Len(p)) = p
    THEN Some(SubSeq(s, Len(p) + 1, Len(s)))
    ELSE None

HexLower == << "0", "1", "2", "3", "4", "5", "6", "7", "8", "9", "a", "b", "c", "d", "e", "f" >>
HexUpper == << "0", "1", "2", "3", "4", "5", "6", "7", "8", "9", "A", "B", "C", "D", "E", "F" >>

\* hex's val(): the nibble of one character, 16 when it is no hex digit;
\* both letter cases are digits
HexVal(c) ==
    IF \E i \in 1..16 : HexLower[i] = c THEN (CHOOSE i \in 1..16 : HexLower[i] = c) - 1
    ELSE IF \E i \in 1..16 : HexUpper[i] = c THEN (CHOOSE i \in 1..16 : HexUpper[i] = c) - 1
    ELSE 16

\* hex::decode: odd length or a non-digit is an error (None), else the bytes
hex_decode(s) ==
    IF Len(s) % 2 # 0 \/ \E i \in 1..Len(s) : HexVal(s[i]) = 16
    THEN None
    ELSE Some([ i \in 1..(Len(s) \div 2) |-> 16 * HexVal(s[2 * i - 1]) + HexVal(s[2 * i]) ])

\* hex::encode: two lower-case digits per byte
hex_encode(bytes) ==
    [ i \in 1..(2 * Len(bytes)) |->
        IF i % 2 = 1 THEN HexLower[(bytes[(i + 1) \div 2] \div 16) + 1]
                     ELSE HexLower[(bytes[i \div 2] % 16) + 1] ]

Secrets == { "s1", "s2" }

\* The raw request bodies: JSON of a push event (repository.full_name, ref and
\* some other content), or bytes that are no GithubPushEvent.
Bodies ==
    { [ json |-> TRUE, full_name |-> "org/a", ref |-> "refs/heads/main", rest |-> 1 ],
      [ json |-> TRUE, full_name |-> "org/a", ref |-> "refs/heads/main", rest |-> 2 ],
      [ json |-> TRUE, full_name |-> "org/a", ref |-> "refs/heads/dev", rest |-> 1 ],
      [ json |-> TRUE, full_name |-> "org/b", ref |-> "refs/heads/main", rest |-> 1 ],
      [ json |-> TRUE, full_name |-> "org/a", ref |-> "refs/tags/main", rest |-> 1 ],
      [ json |-> FALSE, full_name |-> "", ref |-> "", rest |-> 0 ] }

\* ring::hmac::sign with HMAC_SHA256, as an abstract keyed function: one tag
\* byte per (key, message), different for different pairs.
HmacByte(secret, body) ==
    (IF secret = "s1" THEN 160 ELSE 176)
    + (IF ~body.json THEN 0
       ELSE IF body.full_name = "org/b" THEN 1
       ELSE IF body.ref = "refs/heads/dev" THEN 10
       ELSE IF body.ref = "refs/tags/main" THEN 11
       ELSE IF body.rest = 1 THEN 12 ELSE 13)

hmac_sign(secret, body) == << HmacByte(secret, body) >>

\* A verify that compares the length of the signature only
hmac_verify_length_only(secret, body, signature_bytes) ==
    Len(hmac_sign(secret, body)) = Len(signature_bytes)

\* ring::hmac::verify: recompute the tag and compare it with the given bytes
hmac_verify(secret, body, signature_bytes) == hmac_sign(secret, body) = signature_bytes

----------------------------------------------------------------------------
(* Route::validate_signature and Route::hook_for_event *)

ErrMissing == "Missing X-Hub-Signature-256 header"
ErrPrefix == "Malformed HTTP_X_HUB_SIGNATURE_256: should start with sha256="
ErrHex == "Malformed X-Hub-Signature-256: should be all hex"
ErrInvalid == "Invalid message signature"

\* One println! of validate_signature
Printed(what, text) == [ what |-> what, text |-> text ]

\* A validate_signature that reads the header before it looks at the secret
validate_signature_header_first(hook, header, body) ==
    IF header = None THEN [ res |-> ErrMissing, out |-> << >> ]
    ELSE IF hook.secret = None THEN [ res |-> "Ok", out |-> << >> ]
    ELSE LET stripped == strip_prefix(Unwrap(header), Sha256Prefix) IN
         IF stripped = None THEN [ res |-> ErrPrefix, out |-> << >> ]
         ELSE LET signature_bytes == hex_decode(Unwrap(stripped)) IN
              IF signature_bytes = None THEN [ res |-> ErrHex, out |-> << >> ]
              ELSE IF hmac_verify(Unwrap(hook.secret), body, Unwrap(signature_bytes))
                   THEN [ res |-> "Ok", out |-> << >> ]
                   ELSE [ res |-> ErrInvalid, out |-> << >> ]

\* A validate_signature that hands text that is no hex to the HMAC comparison
validate_signature_no_hex_check(hook, header, body) ==
    IF hook.secret = None THEN [ res |-> "Ok", out |-> << >> ]
    ELSE IF header = None THEN [ res |-> ErrMissing, out |-> << >> ]
    ELSE LET stripped == strip_prefix(Unwrap(header), Sha256Prefix) IN
         IF stripped = None THEN [ res |-> ErrPrefix, out |-> << >> ]
         ELSE LET signature == Unwrap(stripped)
                  signature_bytes == hex_decode(signature)
                  secret == Unwrap(hook.secret)
                  p1 == Printed("Signature from headers is", signature)
                  p2 == Printed("signature from key and body is",
                                hex_encode(hmac_sign(secret, body))) IN
              IF signature_bytes # None
                 /\ hmac_verify(secret, body, Unwrap(signature_bytes))
              THEN [ res |-> "Ok", out |-> << p1, p2 >> ]
              ELSE [ res |-> ErrInvalid, out |-> << p1, p2 >> ]

\* validate_signature(hook, req, body): header is the last value of the
\* X-Hub-Signature-256 header, or None when the request has none. The result
\* is Ok or the Err string; out is what the function prints to stdout.
validate_signature(hook, header, body) ==
    IF hook.secret = None THEN [ res |-> "Ok", out |-> << >> ]
    ELSE IF header = None THEN [ res |-> ErrMissing, out |-> << >> ]
    ELSE LET stripped == strip_prefix(Unwrap(header), Sha256Prefix) IN
         IF stripped = None THEN [ res |-> ErrPrefix, out |-> << >> ]
         ELSE LET signature == Unwrap(stripped)
                  signature_bytes == hex_decode(signature)
                  p1 == Printed("Signature from headers is", signature) IN
              IF signature_bytes = None THEN [ res |-> ErrHex, out |-> << p1 >> ]
              ELSE LET secret == Unwrap(hook.secret)
                       tag == hmac_sign(secret, body)
                       p2 == Printed("signature from key and body is", hex_encode(tag)) IN
                   IF hmac_verify(secret, body, Unwrap(signature_bytes))
                   THEN [ res |-> "Ok", out |-> << p1, p2 >> ]
                   ELSE [ res |-> ErrInvalid, out |-> << p1, p2 >> ]

\* serde_json::from_slice::<GithubPushEvent>: the event's repository.full_name
\* and ref, or None when the bytes do not decode
from_slice(body) ==
    IF body.json THEN Some([ full_name |-> body.full_name, reference |-> body.ref ]) ELSE None

\* hook_for_event: the first hook of the route, in order, whose repo_name and
\* branch match the event; None when there is none
RECURSIVE hook_scan(_, _, _)
hook_scan(hooks, v, i) ==
    IF i > Len(hooks) THEN None
    ELSE IF v.full_name = hooks[i].repo_name
            /\ v.reference = "refs/heads/" \o hooks[i].branch
         THEN Some(hooks[i])
         ELSE hook_scan(hooks, v, i + 1)

\* A hook_for_event that compares the repository only
hook_for_event_any_branch(hooks, v) ==
    IF \E i \in 1..Len(hooks) : v.full_name = hooks[i].repo_name
    THEN Some(hooks[CHOOSE i \in 1..Len(hooks) :
                      /\ v.full_name = hooks[i].repo_name
                      /\ \A j \in 1..(i - 1) : v.full_name # hooks[j].repo_name])
    ELSE None

hook_for_event(hooks, v) == hook_scan(hooks, v, 1)

----------------------------------------------------------------------------
(* Configuration and the route table built by main *)

HookConfig(name, repo_name, hook_route, repository_directory, script, branch, secret) ==
    [ name |-> name, repo_name |-> repo_name, hook_route |-> hook_route,
      repository_directory |-> repository_directory, script |-> script,
      branch |-> branch, secret |-> secret ]

\* The hooks of the configuration file, in file order. The second hook is
\* shadowed by the first (same route, repository and branch).
Config ==
    << HookConfig("site", "org/a", "/deploy", "/srv/site", "./deploy.sh", "main", Some("s1")),
       HookConfig("site-copy", "org/a", "/deploy", "/srv/copy", "./copy.sh", "main", None),
       HookConfig("staging", "org/a", "/deploy", "/srv/staging", "./stage.sh", "dev", None),
       HookConfig("other", "org/b", "/other", "/srv/other", "./other.sh", "main", Some("s2")) >>

\* Route::new: no hooks yet; every Route holds a Sender of the one channel
Route_new(route) == [ route |-> route, hooks |-> << >>, channel |-> "send" ]

\* Route::add_hook; the assert panics when the hook belongs to another route
add_hook(self, hook) ==
    IF hook.hook_route = self.route
    THEN [ self EXCEPT !.hooks = Append(@, hook) ]
    ELSE [ self EXCEPT !.route = "panic" ]

\* A loop over config.hooks that inserts a new Route for every hook
RECURSIVE build_routes_overwrite(_, _, _)
build_routes_overwrite(hooks, i, table) ==
    IF i > Len(hooks) THEN table
    ELSE LET hook == hooks[i]
             r == hook.hook_route
             rest == [ k \in DOMAIN table \ {r} |-> table[k] ]
         IN build_routes_overwrite(hooks, i + 1, (r :> add_hook(Route_new(r), hook)) @@ rest)

\* main's loop over config.hooks: entry(hook_route).or_insert_with(Route::new).add_hook(hook)
RECURSIVE build_routes(_, _, _)
build_routes(hooks, i, table) ==
    IF i > Len(hooks) THEN table
    ELSE LET hook == hooks[i]
             r == hook.hook_route
             entry == IF r \in DOMAIN table THEN table[r] ELSE Route_new(r)
             rest == [ k \in DOMAIN table \ {r} |-> table[k] ]
         IN build_routes(hooks, i + 1, (r :> add_hook(entry, hook)) @@ rest)

EmptyTable == [ k \in {} |-> Route_new(k) ]

----------------------------------------------------------------------------
(* Requests *)

BodyAMain == [ json |-> TRUE, full_name |-> "org/a", ref |-> "refs/heads/main", rest |-> 1 ]
BodyADev == [ json |-> TRUE, full_name |-> "org/a", ref |-> "refs/heads/dev", rest |-> 1 ]
BodyBMain == [ json |-> TRUE, full_name |-> "org/b", ref |-> "refs/heads/main", rest |-> 1 ]
BodyGarbage == [ json |-> FALSE, full_name |-> "", ref |-> "", rest |-> 0 ]

\* The header GitHub sends: 'sha256=' + hexdigest(HMAC(secret, payload_body))
GithubSignature(secret, body) == Some(Sha256Prefix \o hex_encode(hmac_sign(secret, body)))

Request(route, readOk, body, header) ==
    [ route |-> route, readOk |-> readOk, body |-> body, header |-> header ]

\* The requests a client may post in the system specification: signed and
\* unsigned pushes for each hook, a body that cannot be read, one that does not
\* decode, a push no hook of the route matches.
Requests ==
    { Request("/deploy", TRUE, BodyAMain, GithubSignature("s1", BodyAMain)),
      Request("/deploy", TRUE, BodyAMain, None),
      Request("/deploy", TRUE, BodyADev, None),
      Request("/deploy", TRUE, BodyGarbage, None),
      Request("/deploy", TRUE, BodyBMain, None),
      Request("/deploy", FALSE, BodyAMain, GithubSignature("s1", BodyAMain)) }

NoRequest == Request("", FALSE, BodyGarbage, None)

----------------------------------------------------------------------------
(* Route::process_request and Endpoint::call *)

Ok == [ ok |-> TRUE, err |-> "" ]
Err(e) == [ ok |-> FALSE, err |-> e ]

\* A process_request that sends the job before it validates the signature
process_request_send_first(self, req, chanOpen) ==
    IF ~req.readOk THEN [ res |-> Err("TideError"), sent |-> << >> ]
    ELSE LET v == from_slice(req.body) IN
         IF v = None THEN [ res |-> Err("DecodingError"), sent |-> << >> ]
         ELSE LET found == hook_for_event(self.hooks, Unwrap(v)) IN
              IF found = None
              THEN [ res |-> Err("AuthenticationError(No valid hook found)"), sent |-> << >> ]
              ELSE LET hook == Unwrap(found)
                       sig == validate_signature(hook, req.header, req.body)
                       job == [ type |-> "PushEvent", hook |-> hook, content |-> Unwrap(v) ] IN
                   IF ~chanOpen
                   THEN [ res |-> Err("ChannelError"), sent |-> << >> ]
                   ELSE IF sig.res # "Ok"
                   THEN [ res |-> Err("AuthenticationError(" \o sig.res \o ")"),
                          sent |-> << job >> ]
                   ELSE [ res |-> Ok, sent |-> << job >> ]

\* A process_request that drops the error of Sender::send
process_request_ignore_send_error(self, req, chanOpen) ==
    IF ~req.readOk THEN [ res |-> Err("TideError"), sent |-> << >> ]
    ELSE LET v == from_slice(req.body) IN
         IF v = None THEN [ res |-> Err("DecodingError"), sent |-> << >> ]
         ELSE LET found == hook_for_event(self.hooks, Unwrap(v)) IN
              IF found = None
              THEN [ res |-> Err("AuthenticationError(No valid hook found)"), sent |-> << >> ]
              ELSE LET hook == Unwrap(found)
                       sig == validate_signature(hook, req.header, req.body) IN
                   IF sig.res # "Ok"
                   THEN [ res |-> Err("AuthenticationError(" \o sig.res \o ")"), sent |-> << >> ]
                   ELSE IF ~chanOpen
                   THEN [ res |-> Ok, sent |-> << >> ]
                   ELSE [ res |-> Ok,
                          sent |-> << [ type |-> "PushEvent", hook |-> hook,
                                        content |-> Unwrap(v) ] >> ]

\* A process_request that checks the signature against the last hook of the
\* route instead of the hook selected for the event
process_request_last_hook_secret(self, req, chanOpen) ==
    IF ~req.readOk THEN [ res |-> Err("TideError"), sent |-> << >> ]
    ELSE LET v == from_slice(req.body) IN
         IF v = None THEN [ res |-> Err("DecodingError"), sent |-> << >> ]
         ELSE LET found == hook_for_event(self.hooks, Unwrap(v)) IN
              IF found = None
              THEN [ res |-> Err("AuthenticationError(No valid hook found)"), sent |-> << >> ]
              ELSE LET hook == Unwrap(found)
                       sig == validate_signature(self.hooks[Len(self.hooks)],
                                                 req.header, req.body) IN
                   IF sig.res # "Ok"
                   THEN [ res |-> Err("AuthenticationError(" \o sig.res \o ")"), sent |-> << >> ]
                   ELSE IF ~chanOpen
                   THEN [ res |-> Err("ChannelError"), sent |-> << >> ]
                   ELSE [ res |-> Ok,
                          sent |-> << [ type |-> "PushEvent", hook |-> hook,
                                        content |-> Unwrap(v) ] >> ]

\* process_request(self, req): chanOpen is whether the channel's Receiver still
\* exists (Sender::send fails once it is dropped). The result, and the events
\* handed to send (none or one).
process_request(self, req, chanOpen) ==
    IF ~req.readOk THEN [ res |-> Err("TideError"), sent |-> << >> ]
    ELSE LET v == from_slice(req.body) IN
         IF v = None THEN [ res |-> Err("DecodingError"), sent |-> << >> ]
         ELSE LET found == hook_for_event(self.hooks, Unwrap(v)) IN
              IF found = None
              THEN [ res |-> Err("AuthenticationError(No valid hook found)"), sent |-> << >> ]
              ELSE LET hook == Unwrap(found)
                       sig == validate_signature(hook, req.header, req.body) IN
                   IF sig.res # "Ok"
                   THEN [ res |-> Err("AuthenticationError(" \o sig.res \o ")"), sent |-> << >> ]
                   ELSE IF ~chanOpen
                   THEN [ res |-> Err("ChannelError"), sent |-> << >> ]
                   ELSE [ res |-> Ok,
                          sent |-> << [ type |-> "PushEvent", hook |-> hook,
                                        content |-> Unwrap(v) ] >> ]

\* Endpoint::call: 200 with "" on Ok, 500 with the error's Debug text on Err
call_response(res) ==
    IF res.ok THEN [ status |-> 200, body |-> "" ]
    ELSE [ status |-> 500, body |-> res.err ]

Done == [ type |-> "Done" ]

\* A send that puts the message at the front of the channel
send_front(q, events) == events \o q

\* Sender::send on the mpsc channel: the message goes behind those buffered
send(q, events) == q \o events

NoResponse == [ status |-> 0, body |-> "" ]
IdleHandler == [ pc |-> "idle", req |-> NoRequest, resp |-> NoResponse, appended |-> 0 ]

ProcessAlive == mainPc \notin { "exit_ok", "exit_err" }

\* tide dispatches a request to the Route registered at its path
Arrive(h, req) ==
    /\ mainPc = "serving"
    /\ arrived < MaxRequests
    /\ handlers[h].pc = "idle"
    /\ req.route \in DOMAIN routes
    /\ arrived' = arrived + 1
    /\ handlers' = [ handlers EXCEPT ![h] = [ pc |-> "called", req |-> req,
                                              resp |-> NoResponse, appended |-> 0 ] ]
    /\ UNCHANGED << mainVars, queue, recvAlive, enqueued, workerVars, fnVars >>

\* A call that hands its job over only when the worker is idle and nothing
\* is buffered (a rendezvous channel)
Call_waits_for_worker(h) ==
    /\ ProcessAlive
    /\ handlers[h].pc = "called"
    /\ wPc \in { "recv", "exited" }
    /\ queue = << >>
    /\ LET req == handlers[h].req
           r == process_request(routes[req.route], req, recvAlive)
           events == [ i \in 1..Len(r.sent) |-> [ ev |-> r.sent[i], id |-> enqueued + i ] ]
       IN /\ queue' = send(queue, events)
          /\ enqueued' = enqueued + Len(events)
          /\ handlers' = [ handlers EXCEPT ![h] =
                             [ @ EXCEPT !.pc = "responded", !.resp = call_response(r.res),
                                        !.appended = Len(queue') - Len(queue) ] ]
    /\ UNCHANGED << mainVars, recvAlive, arrived, workerVars, fnVars >>

\* Endpoint::call for Route: process_request, then the response
Call(h) ==
    /\ ProcessAlive
    /\ handlers[h].pc = "called"
    /\ LET req == handlers[h].req
           r == process_request(routes[req.route], req, recvAlive)
           events == [ i \in 1..Len(r.sent) |-> [ ev |-> r.sent[i], id |-> enqueued + i ] ]
       IN /\ queue' = send(queue, events)
          /\ enqueued' = enqueued + Len(events)
          /\ handlers' = [ handlers EXCEPT ![h] =
                             [ @ EXCEPT !.pc = "responded", !.resp = call_response(r.res),
                                        !.appended = Len(queue') - Len(queue) ] ]
    /\ UNCHANGED << mainVars, recvAlive, arrived, workerVars, fnVars >>

\* tide writes the response; the handler ends
Respond(h) ==
    /\ ProcessAlive
    /\ handlers[h].pc = "responded"
    /\ handlers' = [ handlers EXCEPT ![h] = IdleHandler ]
    /\ UNCHANGED << mainVars, queue, recvAlive, arrived, enqueued, workerVars, fnVars >>

----------------------------------------------------------------------------
(* update_and_run_hook, its log, and the worker thread *)

Stages == 1..4

\* The stages with the rebase before the checkout
StageCommand_rebase_first(hook, stage) ==
    LET repo_dir == hook.repository_directory
        main_branch == hook.branch
    IN CASE stage = 1 -> [ cmd |-> "git", args |-> << "fetch", "origin" >>,
                           dir |-> repo_dir, label |-> "fetching latest changes" ]
         [] stage = 2 -> [ cmd |-> "git", args |-> << "rebase", "origin/" \o main_branch >>,
                           dir |-> repo_dir, label |-> "rebasing onto latest changes" ]
         [] stage = 3 -> [ cmd |-> "git", args |-> << "checkout", main_branch >>,
                           dir |-> repo_dir, label |-> "checking out main branch" ]
         [] stage = 4 -> [ cmd |-> hook.script, args |-> << >>,
                           dir |-> repo_dir, label |-> "running hook" ]

\* The command of each stage of update_and_run_hook, run in repo_dir
StageCommand(hook, stage) ==
    LET repo_dir == hook.repository_directory
        main_branch == hook.branch
    IN CASE stage = 1 -> [ cmd |-> "git", args |-> << "fetch", "origin" >>,
                           dir |-> repo_dir, label |-> "fetching latest changes" ]
         [] stage = 2 -> [ cmd |-> "git", args |-> << "checkout", main_branch >>,
                           dir |-> repo_dir, label |-> "checking out main branch" ]
         [] stage = 3 -> [ cmd |-> "git", args |-> << "rebase", "origin/" \o main_branch >>,
                           dir |-> repo_dir, label |-> "rebasing onto latest changes" ]
         [] stage = 4 -> [ cmd |-> hook.script, args |-> << >>,
                           dir |-> repo_dir, label |-> "running hook" ]

\* GitRepository::run_command: Ok(output), Err(CommandFailed(output)) on a
\* non-zero status, Err(CommandError) when the command cannot be launched
Outcomes == { "Ok", "CommandFailed", "CommandError" }

LogEntry(severity, stage, text) == [ severity |-> severity, stage |-> stage, text |-> text ]

\* render_command_output_to_log / render_command_error_to_log: the add_entry
\* calls one stage result makes
render_to_log(l, stage, outcome) ==
    CASE outcome = "Ok" -> Append(l, LogEntry("INFO", stage, "output"))
      [] outcome = "CommandFailed" -> Append(l, LogEntry("ERROR", stage, "output"))
      [] outcome = "CommandError" ->
            l \o << LogEntry("ERROR", stage, "separator"), LogEntry("ERROR", stage, "error") >>

\* A handle_command_result that leaves a failed stage out of the log
handle_command_result_skip_failed(outcome, stage, l, err) ==
    IF outcome = "Ok"
    THEN [ ok |-> TRUE, log |-> render_to_log(l, stage, outcome), stderr |-> err ]
    ELSE [ ok |-> FALSE, log |-> l,
           stderr |-> err \o << [ what |-> "Error - log follows", stage |-> stage ],
                                [ what |-> "log", content |-> l ] >> ]

\* A handle_command_result that announces the log on stderr but does not
\* write it
handle_command_result_no_flush(outcome, stage, l, err) ==
    LET l2 == render_to_log(l, stage, outcome) IN
    IF outcome = "Ok"
    THEN [ ok |-> TRUE, log |-> l2, stderr |-> err ]
    ELSE [ ok |-> FALSE, log |-> l2,
           stderr |-> err \o << [ what |-> "Error - log follows", stage |-> stage ] >> ]

\* handle_command_result: log the result; on Err also write the log to stderr
handle_command_result(outcome, stage, l, err) ==
    LET l2 == render_to_log(l, stage, outcome) IN
    IF outcome = "Ok"
    THEN [ ok |-> TRUE, log |-> l2, stderr |-> err ]
    ELSE [ ok |-> FALSE, log |-> l2,
           stderr |-> err \o << [ what |-> "Error - log follows", stage |-> stage ],
                                [ what |-> "log", content |-> l2 ] >> ]

\* Stages that go on after an Err
next_stage_ignoring_err(stage, ok) == IF stage < 4 THEN stage + 1 ELSE 0

\* The ? after each stage of update_and_run_hook: the stage to run next, or 0
\* when the function returns (Err at once, Ok after the last stage)
next_stage(stage, ok) == IF ok /\ stage < 4 THEN stage + 1 ELSE 0

NoJob == [ ev |-> Done, id |-> 0 ]

\* A worker that takes the next message while a pipeline is still running
WorkerRecv_thread_per_job ==
    /\ ProcessAlive
    /\ wPc \in { "recv", "pipeline", "returned" }
    /\ queue # << >>
    /\ LET m == Head(queue) IN
       IF m.ev.type = "Done"
       THEN /\ wPc' = "exited"
            /\ recvAlive' = FALSE
            /\ queue' = << >>
            /\ UNCHANGED << wJob, wStage, wTrace, log, stderr, runs, running >>
       ELSE /\ wPc' = "pipeline"
            /\ queue' = Tail(queue)
            /\ wJob' = m
            /\ wStage' = 1
            /\ wTrace' = << >>
            /\ log' = << >>
            /\ stderr' = << >>
            /\ runs' = Append(runs, [ id |-> m.id, hook |-> m.ev.hook.name, result |-> "running" ])
            /\ running' = running \cup { m.id }
            /\ UNCHANGED recvAlive
    /\ UNCHANGED << mainVars, handlerVars, enqueued, fnVars >>

\* recv.recv() in the worker loop: Done breaks out of the loop and the closure
\* returns, dropping the Receiver and what it still buffers; a PushEvent
\* enters update_and_run_hook with a fresh log.
WorkerRecv ==
    /\ ProcessAlive
    /\ wPc = "recv"
    /\ queue # << >>
    /\ LET m == Head(queue) IN
       IF m.ev.type = "Done"
       THEN /\ wPc' = "exited"
            /\ recvAlive' = FALSE
            /\ queue' = << >>
            /\ UNCHANGED << wJob, wStage, wTrace, log, stderr, runs, running >>
       ELSE /\ wPc' = "pipeline"
            /\ queue' = Tail(queue)
            /\ wJob' = m
            /\ wStage' = 1
            /\ wTrace' = << >>
            /\ log' = << >>
            /\ stderr' = << >>
            /\ runs' = Append(runs, [ id |-> m.id, hook |-> m.ev.hook.name, result |-> "running" ])
            /\ running' = running \cup { m.id }
            /\ UNCHANGED recvAlive
    /\ UNCHANGED << mainVars, handlerVars, enqueued, fnVars >>

\* One stage of update_and_run_hook: the command runs to completion and its
\* result is handled; after the last stage or an Err the function returns.
RunStage(outcome) ==
    /\ ProcessAlive
    /\ wPc = "pipeline"
    /\ LET c == StageCommand(wJob.ev.hook, wStage)
           h == handle_command_result(outcome, c.label, log, stderr)
           n == next_stage(wStage, h.ok)
       IN /\ wTrace' = Append(wTrace, [ cmd |-> c.cmd, args |-> c.args, dir |-> c.dir,
                                        outcome |-> outcome ])
          /\ log' = h.log
          /\ stderr' = h.stderr
          /\ wStage' = n
          /\ IF n # 0
             THEN UNCHANGED << wPc, runs, running >>
             ELSE /\ wPc' = "returned"
                  /\ runs' = [ runs EXCEPT ![Len(runs)].result =
                                 IF h.ok THEN "Ok" ELSE "Err" ]
                  /\ running' = running \ { wJob.id }
    /\ UNCHANGED << mainVars, queue, recvAlive, handlerVars, enqueued, wJob, fnVars >>

\* A worker that sends a failed job to the channel again
WorkerLoop_retry ==
    /\ ProcessAlive
    /\ wPc = "returned"
    /\ wPc' = "recv"
    /\ queue' = IF runs[Len(runs)].result = "Err" THEN send(queue, << wJob >>) ELSE queue
    /\ wJob' = NoJob
    /\ wTrace' = << >>
    /\ log' = << >>
    /\ UNCHANGED << mainVars, recvAlive, handlerVars, enqueued, wStage, stderr, runs, running,
                    fnVars >>

\* A worker that goes back to recv only after a pipeline that succeeded
WorkerLoop_stop_on_err ==
    /\ ProcessAlive
    /\ wPc = "returned"
    /\ runs[Len(runs)].result = "Ok"
    /\ wPc' = "recv"
    /\ wJob' = NoJob
    /\ wTrace' = << >>
    /\ log' = << >>
    /\ UNCHANGED << mainVars, queue, recvAlive, handlerVars, enqueued, wStage, stderr, runs,
                    running, fnVars >>

\* The worker's match on the result of update_and_run_hook: an Err is
\* reported on stderr; the loop then goes back to recv.
WorkerLoop ==
    /\ ProcessAlive
    /\ wPc = "returned"
    /\ wPc' = "recv"
    /\ stderr' = IF runs[Len(runs)].result = "Err"
                 THEN Append(stderr, [ what |-> "Error running hook",
                                       name |-> wJob.ev.hook.name ])
                 ELSE stderr
    /\ wJob' = NoJob
    /\ wTrace' = << >>
    /\ log' = << >>
    /\ UNCHANGED << mainVars, queue, recvAlive, handlerVars, enqueued, wStage, runs, running,
                    fnVars >>

----------------------------------------------------------------------------
(* main: listen, send Done, join *)

\* app.listen binds the socket; a bind error returns from main through ?
BindOk ==
    /\ mainPc = "listen"
    /\ mainPc' = "serving"
    /\ UNCHANGED << routes, queue, recvAlive, handlerVars, enqueued, workerVars, fnVars >>

BindErr ==
    /\ mainPc = "listen"
    /\ mainPc' = "exit_err"
    /\ UNCHANGED << routes, queue, recvAlive, handlerVars, enqueued, workerVars, fnVars >>

\* app.listen returns Ok: the listener has stopped accepting
ListenReturns ==
    /\ mainPc = "serving"
    /\ mainPc' = "stopped"
    /\ UNCHANGED << routes, queue, recvAlive, handlerVars, enqueued, workerVars, fnVars >>

\* send.send(Event::Done)?
SendDone ==
    /\ mainPc = "stopped"
    /\ IF recvAlive
       THEN /\ queue' = send(queue, << NoJob >>)
            /\ mainPc' = "join"
       ELSE /\ mainPc' = "exit_err"
            /\ UNCHANGED queue
    /\ UNCHANGED << routes, recvAlive, handlerVars, enqueued, workerVars, fnVars >>

\* A main that returns without waiting for the worker
Join_no_wait ==
    /\ mainPc = "join"
    /\ mainPc' = "exit_ok"
    /\ UNCHANGED << routes, queue, recvAlive, handlerVars, enqueued, workerVars, fnVars >>

\* h.join() returns once the worker thread has finished; main returns Ok
Join ==
    /\ mainPc = "join"
    /\ wPc = "exited"
    /\ mainPc' = "exit_ok"
    /\ UNCHANGED << routes, queue, recvAlive, handlerVars, enqueued, workerVars, fnVars >>

----------------------------------------------------------------------------
(* The system *)

\* The state when main reaches app.listen: routes built, worker spawned
SystemInit ==
    /\ mainPc = "listen"
    /\ routes = build_routes(Config, 1, EmptyTable)
    /\ queue = << >>
    /\ recvAlive = TRUE
    /\ handlers = [ h \in Handlers |-> IdleHandler ]
    /\ arrived = 0
    /\ enqueued = 0
    /\ wPc = "recv"
    /\ wJob = NoJob
    /\ wStage = 0
    /\ wTrace = << >>
    /\ log = << >>
    /\ stderr = << >>
    /\ runs = << >>
    /\ running = {}

Init ==
    /\ SystemInit
    /\ fnIn = << >>
    /\ fnOut = << >>

Next ==
    \/ BindOk
    \/ BindErr
    \/ \E h \in Handlers, req \in Requests : Arrive(h, req)
    \/ \E h \in Handlers : Call(h)
    \/ \E h \in Handlers : Respond(h)
    \/ WorkerRecv
    \/ \E outcome \in Outcomes : RunStage(outcome)
    \/ WorkerLoop
    \/ ListenReturns
    \/ SendDone
    \/ Join

Spec == Init /\ [][Next]_vars

\* The handlers that take requests while progress is followed: at most two
\* calls in flight at once
LiveHandlers == { h \in Handlers : h <= 2 }

LiveNext ==
    \/ BindOk
    \/ BindErr
    \/ \E h \in LiveHandlers, req \in Requests : Arrive(h, req)
    \/ \E h \in LiveHandlers : Call(h)
    \/ \E h \in LiveHandlers : Respond(h)
    \/ WorkerRecv
    \/ \E outcome \in Outcomes : RunStage(outcome)
    \/ WorkerLoop
    \/ ListenReturns
    \/ SendDone
    \/ Join

\* The system with a worker thread that is scheduled whenever it can take a
\* step, commands that terminate, and a join that returns once the thread
\* has finished
LiveSpec ==
    /\ Init
    /\ [][LiveNext]_vars
    /\ WF_vars(WorkerRecv)
    /\ WF_vars(\E outcome \in Outcomes : RunStage(outcome))
    /\ WF_vars(WorkerLoop)
    /\ WF_vars(Join)

----------------------------------------------------------------------------
(* validate_signature on its own: every secret, body and header *)

\* Characters of the header texts drawn: hex digits in both cases and one
\* character that is no hex digit
HeaderChars == { "a", "A", "c", "C", "g" }

HexTexts == UNION { [ 1..n -> HeaderChars ] : n \in 0..MaxHexLen }

\* Absent, or a text with the right prefix, another prefix or none
Headers ==
    { None } \cup { Some(p \o t) : p \in { Sha256Prefix, Sha1Prefix, << >> }, t \in HexTexts }

SigHook(secret) ==
    HookConfig("site", "org/a", "/deploy", "/srv/site", "./deploy.sh", "main", secret)

SigInit ==
    /\ SystemInit
    /\ fnIn \in [ secret : { None } \cup { Some(k) : k \in Secrets },
                  header : Headers, body : Bodies ]
    /\ fnOut = None

SigValidate ==
    /\ fnOut = None
    /\ fnOut' = Some(validate_signature(SigHook(fnIn.secret), fnIn.header, fnIn.body))
    /\ UNCHANGED << mainVars, queue, recvAlive, handlerVars, enqueued, workerVars, fnIn >>

SigNext == SigValidate

SigSpec == SigInit /\ [][SigNext]_vars

----------------------------------------------------------------------------
(* hook_for_event on its own: every list of hooks of a route, every event *)

HookKinds == { << repo, branch >> : repo \in { "org/a", "org/b" }, branch \in { "main", "dev" } }

HookLists == UNION { [ 1..n -> HookKinds ] : n \in 0..MaxHooks }

HookNames == << "first", "second", "third", "fourth", "fifth" >>

\* The hooks of one Route, named by their place in the configuration
RouteHooks(kinds) ==
    [ i \in 1..Len(kinds) |->
        HookConfig(HookNames[i], kinds[i][1], "/deploy", "/srv/" \o HookNames[i],
                   "./deploy.sh", kinds[i][2], None) ]

PushEvents ==
    [ full_name : { "org/a", "org/b", "org/c" },
      reference : { "refs/heads/main", "refs/heads/dev", "refs/tags/main", "main" } ]

RouteInit ==
    /\ SystemInit
    /\ fnIn \in [ hooks : { RouteHooks(k) : k \in HookLists }, event : PushEvents ]
    /\ fnOut = << "pending" >>

RouteMatch ==
    /\ fnOut = << "pending" >>
    /\ fnOut' = << "returned", hook_for_event(fnIn.hooks, fnIn.event) >>
    /\ UNCHANGED << mainVars, queue, recvAlive, handlerVars, enqueued, workerVars, fnIn >>

RouteNext == RouteMatch

RouteSpec == RouteInit /\ [][RouteNext]_vars

----------------------------------------------------------------------------
(* CommandOutput::format and the rendering of one stage result into the log *)

\* A text is a sequence of tokens: pieces without a line break, and NL
NL == "\n"

\* Longest stdout or stderr of a command, in tokens
MaxStreamLen == 2

\* str::lines: the pieces between line breaks, each a sequence of tokens; a
\* last line without a line break counts only when it is not empty
lines(s) ==
    LET Step[k \in 1..(Len(s) + 1)] ==
            IF k = 1 THEN [ done |-> << >>, cur |-> << >> ]
            ELSE LET p == Step[k - 1] IN
                 IF s[k - 1] = NL THEN [ done |-> Append(p.done, p.cur), cur |-> << >> ]
                 ELSE [ done |-> p.done, cur |-> Append(p.cur, s[k - 1]) ]
        last == Step[Len(s) + 1]
    IN IF last.cur = << >> THEN last.done ELSE Append(last.done, last.cur)

\* The separator with the stage name that opens a rendered stage
separator(stage_name) == << NL, "--------", NL, stage_name, NL, "--------", NL >>

\* A format that leaves out the section of an empty stream
format_omit_empty(output, stage_name) ==
    separator(stage_name)
    \o << "++ status = ", output.status, NL >>
    \o (IF output.stdout = << >> THEN << >>
        ELSE << "++ stdout", NL >> \o output.stdout \o << NL >>)
    \o (IF output.stderr = << >> THEN << >>
        ELSE << "++ stderr", NL >> \o output.stderr \o << NL >>)

\* CommandOutput::format
format(output, stage_name) ==
    separator(stage_name)
    \o << "++ status = ", output.status, NL >>
    \o (IF output.stdout = << >> THEN << "++ stdout [empty]", NL >>
        ELSE << "++ stdout", NL >> \o output.stdout \o << NL >>)
    \o (IF output.stderr = << >> THEN << "++ stderr [empty]", NL >>
        ELSE << "++ stderr", NL >> \o output.stderr \o << NL >>)

\* SimpleLog::add_entry: one line of content per line of s, the first marked
\* +, the others | (the timestamp of each line is left out)
add_entry(content, prefix, s) ==
    content \o [ i \in 1..Len(lines(s)) |->
                   [ prefix |-> prefix, mark |-> IF i = 1 THEN "+" ELSE "|",
                     text |-> lines(s)[i] ] ]

render_command_output_to_log(content, stage, output) ==
    add_entry(content, "INFO", format(output, stage))

render_command_error_to_log(content, stage, err) ==
    IF err.kind = "CommandError"
    THEN add_entry(add_entry(content, "ERROR", separator(stage)),
                   "ERROR", << "error = ", err.e >>)
    ELSE add_entry(content, "ERROR", format(err.output, stage))

\* The log part of handle_command_result
render_result(content, stage, result) ==
    IF result.kind = "Ok" THEN render_command_output_to_log(content, stage, result.output)
    ELSE render_command_error_to_log(content, stage, result)

\* What a command can write to a stream
Streams == UNION { [ 1..n -> { "x", NL } ] : n \in 0..MaxStreamLen }

StageLabels == { StageCommand(Config[1], s).label : s \in Stages }

\* The results of run_command: the captured output with a zero status, the
\* same with a non-zero status, or the io::Error of a command not launched
CommandResults ==
    { [ kind |-> "Ok", output |-> [ status |-> "exit status: 0", stdout |-> o, stderr |-> e ] ]
        : o \in Streams, e \in Streams }
    \cup { [ kind |-> "CommandFailed",
             output |-> [ status |-> st, stdout |-> o, stderr |-> e ] ]
            : st \in { "exit status: 1", "signal: 9 (SIGKILL)" }, o \in Streams, e \in Streams }
    \cup { [ kind |-> "CommandError", e |-> e ]
            : e \in { "No such file or directory (os error 2)",
                      "Permission denied (os error 13)" } }

FormatInit ==
    /\ SystemInit
    /\ fnIn \in [ stage : StageLabels, result : CommandResults ]
    /\ fnOut = << "pending" >>

FormatRender ==
    /\ fnOut = << "pending" >>
    /\ fnOut' = << "rendered", render_result(<< >>, fnIn.stage, fnIn.result) >>
    /\ UNCHANGED << mainVars, queue, recvAlive, handlerVars, enqueued, workerVars, fnIn >>

FormatNext == FormatRender

FormatSpec == FormatInit /\ [][FormatNext]_vars

----------------------------------------------------------------------------
(* main from the parsed configuration on: every list of hooks *)

\* Most hooks in a configuration
MaxConfigHooks == 3

\* The hooks a configuration is made of
ConfigPool == { Config[i] : i \in 1..Len(Config) }

ConfigLists == UNION { [ 1..n -> ConfigPool ] : n \in 0..MaxConfigHooks }

\* The state when the configuration has been parsed: no routes yet
RegInit ==
    /\ mainPc = "config"
    /\ routes = EmptyTable
    /\ queue = << >>
    /\ recvAlive = TRUE
    /\ handlers = [ h \in Handlers |-> IdleHandler ]
    /\ arrived = 0
    /\ enqueued = 0
    /\ wPc = "recv"
    /\ wJob = NoJob
    /\ wStage = 0
    /\ wTrace = << >>
    /\ log = << >>
    /\ stderr = << >>
    /\ runs = << >>
    /\ running = {}
    /\ fnIn \in ConfigLists
    /\ fnOut = << >>

\* The loop over config.hooks that fills the BTreeMap of routes
RegBuild ==
    /\ mainPc = "config"
    /\ routes' = build_routes(fnIn, 1, EmptyTable)
    /\ mainPc' = "listen"
    /\ UNCHANGED << queue, recvAlive, handlerVars, enqueued, workerVars, fnVars >>

\* Startup, then the requests of one connection at a time
RegNext ==
    \/ RegBuild
    \/ BindOk
    \/ BindErr
    \/ \E req \in Requests : Arrive(1, req)
    \/ Call(1)
    \/ Respond(1)
    \/ ListenReturns

RegistrySpec == RegInit /\ [][RegNext]_vars

----------------------------------------------------------------------------
(* Properties of validate_signature (SigSpec) *)

SigDone == fnOut # None
SigResult == Unwrap(fnOut)

\* The lower-case form of a character
LowerCase(c) ==
    IF \E i \in 1..16 : HexUpper[i] = c THEN HexLower[CHOOSE i \in 1..16 : HexUpper[i] = c]
    ELSE c

\* The header is 'sha256=' followed by the hex digits of the tag, in any
\* letter case
SignatureUpToCase(header, secret, body) ==
    /\ header # None
    /\ LET want == Sha256Prefix \o hex_encode(hmac_sign(secret, body))
           got == Unwrap(header)
       IN /\ Len(got) = Len(want)
          /\ SubSeq(got, 1, Len(Sha256Prefix)) = Sha256Prefix
          /\ \A i \in (Len(Sha256Prefix) + 1)..Len(got) : LowerCase(got[i]) = want[i]

C6_NoSecretAlwaysOk ==
    (SigDone /\ fnIn.secret = None) => SigResult = [ res |-> "Ok", out |-> << >> ]

\* A request without secret and with a header that has no sha256= prefix
\* was validated.
C6_Witness ==
    /\ SigDone
    /\ fnIn.secret = None
    /\ fnIn.header = Some(<< "g" >>)
    /\ SigResult.res = "Ok"

\* The errors of a header that is absent or not of the form sha256=<hex>, and
\* the error of a header of that form that carries another signature
MalformedErrors == { ErrMissing, ErrPrefix, ErrHex }
MismatchError == ErrInvalid

\* The HMAC of the body was computed during the validation
HmacComputed ==
    \E i \in 1..Len(SigResult.out) : SigResult.out[i].what = "signature from key and body is"

\* C12: with a secret, a missing header, then a header without the prefix
\* sha256=, then a remainder that is no hex, each give an error of the
\* malformed kind, found in that order and before the HMAC is computed or
\* compared; only a header of well-formed hex that differs from the HMAC gives
\* the mismatch error, and the mismatch error is none of the malformed ones.
C12_FailureClasses ==
    /\ MismatchError \notin MalformedErrors
    /\ (SigDone /\ fnIn.secret # None) =>
          LET stripped == IF fnIn.header = None THEN None
                          ELSE strip_prefix(Unwrap(fnIn.header), Sha256Prefix)
              bytes == IF stripped = None THEN None ELSE hex_decode(Unwrap(stripped))
          IN /\ fnIn.header = None => SigResult.res = ErrMissing
             /\ (fnIn.header # None /\ stripped = None) => SigResult.res = ErrPrefix
             /\ (stripped # None /\ bytes = None) => SigResult.res = ErrHex
             /\ SigResult.res \in MalformedErrors => ~HmacComputed
             /\ SigResult.res = MismatchError
                   <=> (bytes # None
                        /\ Unwrap(bytes) # hmac_sign(Unwrap(fnIn.secret), fnIn.body))
             /\ SigResult.res \in MalformedErrors \cup { MismatchError, "Ok" }

\* A header with the prefix and a remainder that is no hex was rejected as
\* malformed, for a secret and body whose HMAC is known.
C12_Witness ==
    /\ SigDone
    /\ fnIn.secret = Some("s1")
    /\ fnIn.body = BodyAMain
    /\ fnIn.header = Some(Sha256Prefix \o << "g", "a" >>)
    /\ SigResult.res = ErrHex

\* C17: validation writes nothing to any output, and in particular not the
\* HMAC computed from the secret, whether it accepts or rejects.
C17_ValidationEmitsNothing ==
    SigDone =>
        /\ SigResult.out = << >>
        /\ fnIn.secret # None =>
              \A i \in 1..Len(SigResult.out) :
                  SigResult.out[i].text
                      # hex_encode(hmac_sign(Unwrap(fnIn.secret), fnIn.body))

----------------------------------------------------------------------------
(* Properties of hook_for_event (RouteSpec) *)

RouteDone == fnOut[1] = "returned"
RouteResult == fnOut[2]

Matches(hook, v) ==
    /\ v.full_name = hook.repo_name
    /\ v.reference = "refs/heads/" \o hook.branch

\* C7: hook_for_event returns a target iff some hook of the route has the
\* event's repository and "refs/heads/" + branch equal to the event's ref; the
\* target returned is the first such hook in configuration order.
C7_FirstMatchingHook ==
    RouteDone =>
        LET hooks == fnIn.hooks
            v == fnIn.event
            hits == { i \in 1..Len(hooks) : Matches(hooks[i], v) }
        IN /\ (RouteResult # None <=> hits # {})
           /\ hits # {} =>
                \E i \in hits : /\ \A j \in hits : i <= j
                                /\ RouteResult = Some(hooks[i])

\* A route whose first hook has the event's repository but another branch,
\* and whose second and third hooks both match: the second was returned.
C7_Witness ==
    /\ RouteDone
    /\ Len(fnIn.hooks) = 3
    /\ fnIn.event = [ full_name |-> "org/a", reference |-> "refs/heads/main" ]
    /\ fnIn.hooks[1].repo_name = "org/a" /\ fnIn.hooks[1].branch = "dev"
    /\ Matches(fnIn.hooks[2], fnIn.event)
    /\ Matches(fnIn.hooks[3], fnIn.event)
    /\ RouteResult = Some(fnIn.hooks[2])

----------------------------------------------------------------------------
(* Properties of the system (Spec) *)

QueuedJobs == { i \in 1..Len(queue) : queue[i].ev.type = "PushEvent" }
DoneQueued == \E i \in 1..Len(queue) : queue[i].ev.type = "Done"
RunIds == { runs[i].id : i \in 1..Len(runs) }

\* C1: at most one job's pipeline is executing in every reachable state,
\* whatever the request handlers are doing; while a pipeline is executing it
\* is the pipeline of the one job the worker holds.
C1_OnePipelineAtATime ==
    /\ Cardinality(running) <= 1
    /\ wPc = "pipeline" => running = { wJob.id }
    /\ wPc # "pipeline" => running = {}

\* A pipeline is in the middle of its stages while a request handler is in
\* a call that will send a job for the same target.
C1_Witness ==
    /\ wPc = "pipeline"
    /\ wStage = 3
    /\ running = { wJob.id }
    /\ \E h \in Handlers :
          /\ handlers[h].pc = "called"
          /\ process_request(routes[handlers[h].req.route], handlers[h].req, recvAlive).sent
                = << wJob.ev >>

\* C2: pipelines start in the order the jobs were sent (the n-th pipeline
\* started is that of the n-th job sent), and when a pipeline starts every
\* pipeline started before it has returned, with Ok or with Err.
C2_FifoAcrossTargets ==
    /\ \A i \in 1..Len(runs) : runs[i].id = i
    /\ \A i \in 1..Len(runs) : i < Len(runs) => runs[i].result \in { "Ok", "Err" }
    /\ \A i \in 1..Len(queue) : \A j \in 1..Len(queue) :
          (i < j /\ queue[j].ev.type = "PushEvent" /\ queue[i].ev.type = "PushEvent")
              => queue[i].id < queue[j].id

\* Two jobs for different targets were sent; the first failed and the
\* second's pipeline is now running.
C2_Witness ==
    /\ Len(runs) = 2
    /\ runs[1].hook # runs[2].hook
    /\ runs[1].result = "Err"
    /\ runs[2].result = "running"

\* C3: a stage that fails ends the pipeline at once (no later stage of the
\* job runs), the worker goes from the returned pipeline back to recv with the
\* channel untouched, it leaves its loop only by taking Done, and a pipeline
\* always starts at its first stage with an empty trace.
C3_FailureIsolation ==
    /\ [](\A i \in 1..Len(wTrace) : i < Len(wTrace) => wTrace[i].outcome = "Ok")
    /\ [][ (wPc = "pipeline" /\ wTrace' # wTrace
              /\ wTrace'[Len(wTrace')].outcome # "Ok")
             => (wPc' = "returned" /\ runs'[Len(runs')].result = "Err") ]_vars
    /\ [][ (wPc = "returned" /\ wPc' # "returned")
             => (wPc' = "recv" /\ queue' = queue) ]_vars
    /\ [][ (wPc # "exited" /\ wPc' = "exited")
             => (wPc = "recv" /\ queue # << >> /\ Head(queue).ev.type = "Done") ]_vars
    /\ [][ (wPc = "recv" /\ wPc' = "pipeline")
             => (wStage' = 1 /\ wTrace' = << >> /\ log' = << >> /\ wJob' = Head(queue)) ]_vars

\* The first job failed at its rebase; the second job's pipeline was started
\* and has completed its first stage.
C3_Witness ==
    /\ Len(runs) = 2
    /\ runs[1].result = "Err"
    /\ wPc = "pipeline"
    /\ wStage = 2
    /\ Len(wTrace) = 1

\* Why process_request must fail, read off the request
RequestMustFail(h) ==
    LET req == handlers[h].req
        v == from_slice(req.body)
        found == hook_for_event(routes[req.route].hooks, Unwrap(v))
    IN \/ ~req.readOk
       \/ v = None
       \/ found = None
       \/ validate_signature(Unwrap(found), req.header, req.body).res # "Ok"

\* C4: a call answers 200 with an empty body iff it appended exactly one job
\* to the channel; otherwise it answers 500 with a non-empty body and appended
\* nothing; a request whose body cannot be read or decoded, that matches no
\* hook or that fails validation is answered 500.
C4_ResponseMatchesEnqueue ==
    \A h \in Handlers :
        handlers[h].pc = "responded" =>
            LET r == handlers[h] IN
            /\ r.appended \in { 0, 1 }
            /\ (r.resp.status = 200 /\ r.resp.body = "") <=> r.appended = 1
            /\ r.appended = 0 => (r.resp.status = 500 /\ r.resp.body # "")
            /\ RequestMustFail(h) => (r.resp.status = 500 /\ r.appended = 0)

\* One call answered 200 and appended a job; another, whose signature header
\* is missing, answered 500 and appended nothing.
C4_Witness ==
    \E g \in Handlers, h \in Handlers :
        /\ handlers[g].pc = "responded" /\ handlers[h].pc = "responded"
        /\ handlers[g].resp = [ status |-> 200, body |-> "" ] /\ handlers[g].appended = 1
        /\ handlers[h].resp.status = 500 /\ handlers[h].appended = 0
        /\ handlers[h].req.header = None /\ handlers[h].req.body = BodyAMain

\* The commands update_and_run_hook is to run for a hook, in order
PipelineOf(hook) ==
    << [ cmd |-> "git", args |-> << "fetch", "origin" >> ],
       [ cmd |-> "git", args |-> << "checkout", hook.branch >> ],
       [ cmd |-> "git", args |-> << "rebase", "origin/" \o hook.branch >> ],
       [ cmd |-> hook.script, args |-> << >> ] >>

\* C8: the commands run for a job are a prefix of fetch origin, checkout
\* <branch>, rebase origin/<branch>, deploy script, in that order; every
\* command but the last run has succeeded, so the script runs only after
\* fetch, checkout and rebase succeeded; the stage to run next is the one
\* after the commands run.
C8_StageOrder ==
    (wPc \in { "pipeline", "returned" }) =>
        /\ Len(wTrace) <= 4
        /\ \A i \in 1..Len(wTrace) :
              /\ wTrace[i].cmd = PipelineOf(wJob.ev.hook)[i].cmd
              /\ wTrace[i].args = PipelineOf(wJob.ev.hook)[i].args
              /\ wTrace[i].dir = wJob.ev.hook.repository_directory
              /\ i < Len(wTrace) => wTrace[i].outcome = "Ok"
        /\ wPc = "pipeline" => wStage = Len(wTrace) + 1
        /\ (wPc = "returned" /\ runs[Len(runs)].result = "Ok") => Len(wTrace) = 4

\* All four stages of a job ran and succeeded, the script last.
C8_Witness ==
    /\ wPc = "returned"
    /\ Len(wTrace) = 4
    /\ wTrace[4].cmd = wJob.ev.hook.script
    /\ \A i \in 1..4 : wTrace[i].outcome = "Ok"

\* C9: every job sent is either still in the channel or has had its pipeline
\* started exactly once: no two runs are of the same job, a job whose pipeline
\* was started is not in the channel again, and while the worker is in its
\* loop the runs started plus the jobs waiting equal the jobs sent.
C9_OneRunPerJob ==
    /\ \A i \in 1..Len(runs) : \A j \in 1..Len(runs) : runs[i].id = runs[j].id => i = j
    /\ \A i \in QueuedJobs : queue[i].id \notin RunIds
    /\ \A i \in QueuedJobs : \A j \in QueuedJobs : queue[i].id = queue[j].id => i = j
    /\ recvAlive => Len(runs) + Cardinality(QueuedJobs) = enqueued

\* Two pushes to the same target: the first failed and was not run again,
\* the second had its own run.
C9_Witness ==
    /\ Len(runs) = 2
    /\ runs[1].hook = runs[2].hook
    /\ runs[1].result = "Err"
    /\ runs[2].result = "Ok"
    /\ wPc = "recv"
    /\ queue = << >>

\* C10: after taking Done the worker has left its loop for good and starts no
\* pipeline, also when jobs were sent behind Done; Done is in the channel or
\* taken only after listen has returned; main returns from its shutdown only
\* after the worker thread has ended.
C10_Shutdown ==
    /\ []((DoneQueued \/ wPc = "exited") => mainPc \in { "join", "exit_ok" })
    /\ [](mainPc = "exit_ok" => wPc = "exited")
    /\ [][ (wPc = "recv" /\ queue # << >> /\ Head(queue).ev.type = "Done" /\ wPc' # wPc)
             => wPc' = "exited" ]_vars
    /\ [][ wPc = "exited" => (wPc' = "exited" /\ runs' = runs /\ running' = running) ]_vars

\* main has joined the worker, which exited on Done while a job sent behind
\* Done was never started.
C10_Witness ==
    /\ mainPc = "exit_ok"
    /\ wPc = "exited"
    /\ enqueued > Len(runs)

\* C11: a call is never held up by the worker or by the channel: while the
\* process lives, a handler that has been called can complete its call in
\* every state (worker idle, worker inside a pipeline, jobs buffered); the
\* call produces a response, touches nothing of the worker (it runs no stage),
\* and a job it sends is buffered behind those already waiting.
C11_CallNeverWaits ==
    /\ [](\A h \in Handlers :
            (ProcessAlive /\ handlers[h].pc = "called") => ENABLED Call(h))
    /\ [][ \A h \in Handlers :
            (handlers[h].pc = "called" /\ handlers'[h].pc = "responded")
                => /\ UNCHANGED workerVars
                   /\ handlers'[h].resp.status \in { 200, 500 }
                   /\ handlers'[h].resp.status = 200
                        => (Len(queue') = Len(queue) + 1
                            /\ SubSeq(queue', 1, Len(queue)) = queue) ]_vars

\* A call has answered 200 and its job is buffered while the worker is in
\* the middle of another job's pipeline.
C11_Witness ==
    /\ wPc = "pipeline"
    /\ wStage = 2
    /\ QueuedJobs # {}
    /\ \E h \in Handlers :
          /\ handlers[h].pc = "responded"
          /\ handlers[h].resp.status = 200
          /\ handlers[h].appended = 1

\* C13: once the worker's Receiver is gone, a call whose request passed
\* routing and signature validation is answered 500 with ChannelError and
\* nothing is put on the channel (the channel stays empty, and no job id is
\* used); whatever the state of the channel, a call that answers 200 has
\* appended its job.
C13_RefusedSendIs500 ==
    [][ \A h \in Handlers :
          (handlers[h].pc = "called" /\ handlers'[h].pc = "responded") =>
             /\ (~recvAlive /\ ~RequestMustFail(h)) =>
                   /\ handlers'[h].resp = [ status |-> 500, body |-> "ChannelError" ]
                   /\ handlers'[h].appended = 0
                   /\ queue' = queue
                   /\ enqueued' = enqueued
             /\ handlers'[h].resp.status = 200 =>
                   /\ recvAlive
                   /\ Len(queue') = Len(queue) + 1
                   /\ queue'[Len(queue')].ev.type = "PushEvent" ]_vars

\* The worker has exited, and a correctly signed request that was still in
\* flight has been answered 500 ChannelError.
C13_Witness ==
    /\ wPc = "exited"
    /\ ~recvAlive
    /\ \E h \in Handlers :
          /\ handlers[h].pc = "responded"
          /\ handlers[h].req.header = GithubSignature("s1", BodyAMain)
          /\ handlers[h].resp = [ status |-> 500, body |-> "ChannelError" ]
          /\ handlers[h].appended = 0

----------------------------------------------------------------------------
(* Properties of the per-job log (Spec) *)

\* The entries that open the record of a stage: the formatted output of a
\* command that ran, or the separator written for one that did not launch
RecordStarts(l) == { i \in 1..Len(l) : l[i].text \in { "output", "separator" } }

\* The stage records of a log, in order: label and severity of each
StageRecords(l) ==
    [ j \in 1..Cardinality(RecordStarts(l)) |->
        LET i == CHOOSE s \in RecordStarts(l) :
                     Cardinality({ t \in RecordStarts(l) : t <= s }) = j
        IN [ stage |-> l[i].stage, severity |-> l[i].severity ] ]

\* Every entry lies in a record and agrees with the entry that opens it
WellGrouped(l) ==
    \A i \in 1..Len(l) :
        \/ i \in RecordStarts(l)
        \/ /\ i > 1
           /\ l[i].stage = l[i - 1].stage
           /\ l[i].severity = l[i - 1].severity

IsPrefix(s, t) == Len(s) <= Len(t) /\ SubSeq(t, 1, Len(s)) = s

\* C14: the log is empty when a job's pipeline starts and only grows while it
\* runs; with k stages run it holds exactly k stage records, labelled with
\* stages 1..k of this job in order, the first k-1 INFO; when the pipeline has
\* stopped at stage k the k-th is ERROR iff stage k failed, and it stopped
\* before stage 4 only by failure.
C14_LogRecords ==
    /\ [](wPc \in { "pipeline", "returned" } =>
            LET recs == StageRecords(log)
                k == Len(recs)
            IN /\ WellGrouped(log)
               /\ k = Len(wTrace)
               /\ k <= 4
               /\ \A j \in 1..k : recs[j].stage = StageCommand(wJob.ev.hook, j).label
               /\ \A j \in 1..(k - 1) : recs[j].severity = "INFO"
               /\ wPc = "pipeline" => (k = wStage - 1 /\ \A j \in 1..k : recs[j].severity = "INFO")
               /\ wPc = "returned" =>
                     /\ k >= 1
                     /\ recs[k].severity \in { "INFO", "ERROR" }
                     /\ recs[k].severity = "ERROR" <=> wTrace[k].outcome # "Ok"
                     /\ recs[k].severity = "ERROR" <=> runs[Len(runs)].result = "Err"
                     /\ recs[k].severity = "INFO" => k = 4)
    /\ [][ /\ (wPc # "pipeline" /\ wPc' = "pipeline") => log' = << >>
           /\ wPc = "pipeline" => IsPrefix(log, log') ]_vars

\* A rebase failure: the pipeline stopped at stage 3 and the log holds fetch,
\* checkout and rebase, the rebase at ERROR.
C14_Witness ==
    /\ wPc = "returned"
    /\ Len(wTrace) = 3
    /\ wTrace[3].outcome = "CommandFailed"
    /\ StageRecords(log) =
          << [ stage |-> "fetching latest changes", severity |-> "INFO" ],
             [ stage |-> "checking out main branch", severity |-> "INFO" ],
             [ stage |-> "rebasing onto latest changes", severity |-> "ERROR" ] >>

\* stderr holds a copy of a log that ends with the ERROR record of a stage
FailedLogOnStderr ==
    \E i \in 1..Len(stderr) :
        /\ stderr[i].what = "log"
        /\ stderr[i].content # << >>
        /\ stderr[i].content[Len(stderr[i].content)].severity = "ERROR"

\* C15: the step in which a stage fails writes the whole log, the failing
\* stage's record included, to stderr; so whenever the last pipeline ended in
\* Err, its log is on stderr before the worker takes the next message or
\* exits, and while the function has not returned it is the log itself.
C15_FailedLogFlushed ==
    /\ []((Len(runs) > 0 /\ runs[Len(runs)].result = "Err") => FailedLogOnStderr)
    /\ []((wPc = "returned" /\ runs[Len(runs)].result = "Err") =>
             stderr[Len(stderr)] = [ what |-> "log", content |-> log ])
    /\ [][ (wPc = "pipeline" /\ Len(wTrace') = Len(wTrace) + 1
                /\ wTrace'[Len(wTrace')].outcome # "Ok") =>
             /\ wPc' = "returned"
             /\ Len(log') > Len(log)
             /\ IsPrefix(log, log')
             /\ log'[Len(log')].stage = StageCommand(wJob.ev.hook, wStage).label
             /\ log'[Len(log')].severity = "ERROR"
             /\ stderr' = stderr \o << [ what |-> "Error - log follows",
                                          stage |-> StageCommand(wJob.ev.hook, wStage).label ],
                                        [ what |-> "log", content |-> log' ] >> ]_vars

\* A job failed at its second stage, the worker is back at recv with the next
\* job waiting, and the failed job's log is on stderr.
C15_Witness ==
    /\ wPc = "recv"
    /\ Len(runs) = 1
    /\ runs[1].result = "Err"
    /\ QueuedJobs # {}
    /\ \E i \in 1..Len(stderr) :
          /\ stderr[i].what = "log"
          /\ Len(StageRecords(stderr[i].content)) = 2
          /\ StageRecords(stderr[i].content)[2].severity = "ERROR"

----------------------------------------------------------------------------
(* Properties of the rendering of a stage result (FormatSpec) *)

FormatDone == fnOut[1] = "rendered"
Rendered == fnOut[2]

\* Two rules with the stage label between them
HasSeparator(ls, stage) ==
    \E i \in 1..(Len(ls) - 2) :
        /\ ls[i].text = << "--------" >>
        /\ ls[i + 1].text = << stage >>
        /\ ls[i + 2].text = << "--------" >>

HasStatusLine(ls) ==
    \E i \in 1..Len(ls) : Len(ls[i].text) = 2 /\ ls[i].text[1] = "++ status = "

HasLine(ls, text) == \E i \in 1..Len(ls) : ls[i].text = << text >>

\* The section of a stream: marked [empty] exactly when the stream is empty
HasSection(ls, name, stream) ==
    /\ HasLine(ls, "++ " \o name \o " [empty]") <=> stream = << >>
    /\ HasLine(ls, "++ " \o name) <=> stream # << >>

\* C16 as stated: every stage record, of a successful stage, of one that
\* exited non-zero and of one whose command could not be launched, has the
\* separator with the stage label, a status line, and a stdout and a stderr
\* section, neither ever left out.
C16_EveryRecordHasSections ==
    FormatDone =>
        /\ HasSeparator(Rendered, fnIn.stage)
        /\ HasStatusLine(Rendered)
        /\ HasLine(Rendered, "++ stdout") \/ HasLine(Rendered, "++ stdout [empty]")
        /\ HasLine(Rendered, "++ stderr") \/ HasLine(Rendered, "++ stderr [empty]")

\* C16 amended: the record of a command that ran, with a zero or a non-zero
\* status, has the separator with the stage label, the status line with that
\* status, and a stdout and a stderr section, each marked [empty] exactly
\* when the stream is empty and never left out; the record of a command that
\* could not be launched has the separator with the stage label and a line
\* 'error = ' with the launch error, and neither status line nor sections.
C16_RanRecordsHaveSections ==
    FormatDone =>
        /\ HasSeparator(Rendered, fnIn.stage)
        /\ fnIn.result.kind \in { "Ok", "CommandFailed" } =>
              /\ \E i \in 1..Len(Rendered) :
                    Rendered[i].text = << "++ status = ", fnIn.result.output.status >>
              /\ HasSection(Rendered, "stdout", fnIn.result.output.stdout)
              /\ HasSection(Rendered, "stderr", fnIn.result.output.stderr)
              /\ \A i \in 1..Len(Rendered) :
                    Rendered[i].prefix = IF fnIn.result.kind = "Ok" THEN "INFO" ELSE "ERROR"
        /\ fnIn.result.kind = "CommandError" =>
              /\ Rendered[Len(Rendered)].text = << "error = ", fnIn.result.e >>
              /\ ~HasStatusLine(Rendered)
              /\ \A name \in { "stdout", "stderr" } :
                    ~HasLine(Rendered, "++ " \o name)
                    /\ ~HasLine(Rendered, "++ " \o name \o " [empty]")
              /\ \A i \in 1..Len(Rendered) : Rendered[i].prefix = "ERROR"

\* A stage that exited non-zero with output on stdout and nothing on stderr
\* was rendered: its stderr section is there, marked [empty].
C16_Witness ==
    /\ FormatDone
    /\ fnIn.result.kind = "CommandFailed"
    /\ fnIn.result.output.stdout = << "x", NL >>
    /\ fnIn.result.output.stderr = << >>
    /\ HasLine(Rendered, "++ stdout")
    /\ HasLine(Rendered, "++ stderr [empty]")

----------------------------------------------------------------------------
(* Properties of the binding of a job to its target (Spec) *)

\* The first hook of a route, in configuration order, that matches the event
SelectedTarget(hooks, v) ==
    hooks[CHOOSE i \in 1..Len(hooks) :
            /\ Matches(hooks[i], v)
            /\ \A j \in 1..(i - 1) : ~Matches(hooks[j], v)]

\* The jobs in the channel and the one the worker holds
JobsHeld ==
    { queue[i].ev : i \in QueuedJobs }
    \cup (IF wPc \in { "pipeline", "returned" } THEN { wJob.ev } ELSE {})

\* C18: a call whose event matches a hook of its route checks the signature
\* with the secret of the first matching hook and of no other hook of the
\* route; the job it sends carries that hook and the event; every job held is
\* a configured hook that matches its event; and the worker runs each command
\* in the directory of its job's hook, with that hook's branch and script.
C18_JobBoundToSelectedTarget ==
    /\ [][ \A h \in Handlers :
              (handlers[h].pc = "called" /\ handlers'[h].pc = "responded") =>
                 LET req == handlers[h].req
                     v == from_slice(req.body)
                     hooks == routes[req.route].hooks
                 IN (req.readOk /\ v # None /\ \E i \in 1..Len(hooks) : Matches(hooks[i], Unwrap(v))) =>
                       LET target == SelectedTarget(hooks, Unwrap(v))
                           sig == validate_signature(target, req.header, req.body).res
                       IN /\ handlers'[h].resp.status = 200 => sig = "Ok"
                          /\ sig # "Ok" =>
                                /\ handlers'[h].resp.body = "AuthenticationError(" \o sig \o ")"
                                /\ queue' = queue
                          /\ handlers'[h].appended = 1 =>
                                /\ queue'[Len(queue')].ev.hook = target
                                /\ queue'[Len(queue')].ev.content = Unwrap(v) ]_vars
    /\ [](\A ev \in JobsHeld :
             /\ \E i \in 1..Len(Config) : Config[i] = ev.hook
             /\ ev.hook = SelectedTarget(routes[ev.hook.hook_route].hooks, ev.content))
    /\ [](wPc \in { "pipeline", "returned" } =>
             \A i \in 1..Len(wTrace) :
                 /\ wTrace[i].dir = wJob.ev.hook.repository_directory
                 /\ i = 2 => wTrace[i].args = << "checkout", wJob.ev.hook.branch >>
                 /\ i = 3 => wTrace[i].args = << "rebase", "origin/" \o wJob.ev.hook.branch >>
                 /\ i = 4 => wTrace[i].cmd = wJob.ev.hook.script)

\* An unsigned push to main was refused, although a second hook of the route
\* for the same repository and branch has no secret; a push to dev went to the
\* staging hook and ran its script in its directory.
C18_Witness ==
    /\ wPc = "returned"
    /\ wJob.ev.hook = Config[3]
    /\ Len(wTrace) = 4
    /\ wTrace[4].cmd = "./stage.sh"
    /\ wTrace[4].dir = "/srv/staging"
    /\ wTrace[2].args = << "checkout", "dev" >>
    /\ \E h \in Handlers :
          /\ handlers[h].pc = "responded"
          /\ handlers[h].req = Request("/deploy", TRUE, BodyAMain, None)
          /\ handlers[h].resp.status = 500
          /\ handlers[h].appended = 0

----------------------------------------------------------------------------
(* Properties of the route table (RegistrySpec) *)

\* The hooks of a configuration that name route r, in configuration order
HooksOfRoute(config, r) == SelectSeq(config, LAMBDA hook : hook.hook_route = r)

\* C19: once the routes are built there is one Route for each distinct
\* hook_route of the configuration and no other; each Route carries its own
\* route (the assertion of add_hook held) and exactly the hooks that name it,
\* in configuration order, so every hook is in one Route only; every Route
\* holds a Sender of the one channel; and the table never changes afterwards,
\* whatever requests are handled.
C19_RegistryGroupsByRoute ==
    /\ [](mainPc # "config" =>
            /\ DOMAIN routes = { fnIn[i].hook_route : i \in 1..Len(fnIn) }
            /\ \A r \in DOMAIN routes :
                  /\ routes[r].route = r
                  /\ routes[r].hooks = HooksOfRoute(fnIn, r)
                  /\ routes[r].channel = "send"
            /\ \A i \in 1..Len(fnIn) :
                  Cardinality({ r \in DOMAIN routes :
                                  \E j \in 1..Len(routes[r].hooks) :
                                      routes[r].hooks[j] = fnIn[i] }) = 1)
    /\ [][ mainPc # "config" => routes' = routes ]_vars

\* A configuration that names /deploy, /other, /deploy gave two Routes, the
\* first and third hook in /deploy in that order, and a request has been
\* answered.
C19_Witness ==
    /\ fnIn = << Config[1], Config[4], Config[3] >>
    /\ DOMAIN routes = { "/deploy", "/other" }
    /\ routes["/deploy"].hooks = << Config[1], Config[3] >>
    /\ routes["/other"].hooks = << Config[4] >>
    /\ handlers[1].pc = "responded"
    /\ handlers[1].resp.status = 200

----------------------------------------------------------------------------
(* Progress of the worker (LiveSpec) *)

\* Job id waits in the channel with no Done in front of it
QueuedAheadOfDone(id) ==
    \E i \in QueuedJobs :
        /\ queue[i].id = id
        /\ \A j \in 1..(i - 1) : queue[j].ev.type # "Done"

\* The pipeline of job id has returned: Ok, or Err with its log on stderr
Finished(id) ==
    \E i \in 1..Len(runs) :
        /\ runs[i].id = id
        /\ \/ runs[i].result = "Ok"
           \/ runs[i].result = "Err" /\ (i = Len(runs) => FailedLogOnStderr)

\* C20: with the worker scheduled fairly and commands that terminate, every
\* job that waits in the channel ahead of Done has its pipeline started and
\* finished, Ok or Err with its log written; once Done is in the channel the
\* worker exits; and once main waits in join it returns.
C20_JobsFinishAndWorkerExits ==
    /\ \A id \in 1..MaxRequests : QueuedAheadOfDone(id) ~> Finished(id)
    /\ DoneQueued ~> (wPc = "exited")
    /\ (mainPc = "join") ~> (mainPc = "exit_ok")

\* Two jobs were queued ahead of Done; the first failed, the second ran to
\* the end, the worker exited and main returned from join.
C20_Witness ==
    /\ mainPc = "exit_ok"
    /\ wPc = "exited"
    /\ Len(runs) = 2
    /\ runs[1].result = "Err"
    /\ runs[2].result = "Ok"

====
